---- MODULE Spec2Model ----
(***************************************************************************)
(* better-recs: playlist seeds -> Last.fm similarity fan-out -> weighted   *)
(* aggregation and ranking.  One request at a time runs through the        *)
(* recommendation engine; the collaborators (Spotify playlist fetch,       *)
(* Last.fm similarity lookup) answer nondeterministically from bounded     *)
(* sets.  A second specification, TokenSpec, runs concurrent callers of   *)
(* spotifyService.getAccessToken against the shared token cache.           *)
(*                                                                         *)
(* Numbers.  JavaScript numbers are modelled as exact rationals <<n, d>>   *)
(* (d > 0, lowest terms) extended with NaN == <<0, 0>> and                  *)
(* Infinity == <<1, 0>>, the two values a division by zero produces.       *)
(* Rounding error of IEEE doubles is not modelled.                         *)
(*                                                                         *)
(* Strings.  A name is a sequence of character codes; toLowerCase maps     *)
(* the codes 65..90 to 97..122.                                            *)
(***************************************************************************)
EXTENDS Integers, Sequences, FiniteSets, TLC

(***************************************************************************)
(* Bounds of the model                                                     *)
(***************************************************************************)
MaxLimit == 2
MaxMinFrequency == 2
\* the size of what one request reads: playlist references, supplied options,
\* playlist tracks and similar-artist entries, all counted together
MaxInput == 5
\* getAccessToken: concurrent callers, clock ticks, tokens handed out
MaxCallers == 2
MaxTicks == 3
MaxIssued == 2

\* options.limit || 20, limit = 20
DefaultLimit == 20
\* options.minFrequency || 1, minFrequency = 1
DefaultMinFrequency == 1
\* 100 / playlists.length
FullWeight == 100
\* (response.data.expires_in - 300) * 1000
RefreshLead == 300
MsPerSecond == 1000

(***************************************************************************)
(* JavaScript numbers                                                      *)
(***************************************************************************)
NaN == <<0, 0>>
Infinity == <<1, 0>>

IsFinite(x) == x[2] # 0

RECURSIVE GCD(_, _)
GCD(a, b) == IF b = 0 THEN a ELSE GCD(b, a % b)

Abs(n) == IF n < 0 THEN -n ELSE n

\* the rational n/d in lowest terms, d # 0
Rat(n, d) ==
    LET g == GCD(Abs(n), Abs(d))
        s == IF d < 0 THEN -1 ELSE 1
    IN  <<(s * n) \div g, (s * d) \div g>>

Num(k) == <<k, 1>>
Zero == Num(0)
One == Num(1)

\* x + y
Add(x, y) ==
    IF x = NaN \/ y = NaN THEN NaN
    ELSE IF x = Infinity \/ y = Infinity THEN Infinity
    ELSE Rat(x[1] * y[2] + y[1] * x[2], x[2] * y[2])

\* x * y
Mul(x, y) ==
    IF x = NaN \/ y = NaN THEN NaN
    ELSE IF x = Infinity \/ y = Infinity
         THEN (IF x = Zero \/ y = Zero THEN NaN ELSE Infinity)
    ELSE Rat(x[1] * y[1], x[2] * y[2])

\* x / y for x, y >= 0
Div(x, y) ==
    IF x = NaN \/ y = NaN THEN NaN
    ELSE IF y = Infinity THEN (IF x = Infinity THEN NaN ELSE Zero)
    ELSE IF x = Infinity THEN Infinity
    ELSE IF y = Zero THEN (IF x = Zero THEN NaN ELSE Infinity)
    ELSE Rat(x[1] * y[2], x[2] * y[1])

\* x < y, false when either is NaN
Less(x, y) ==
    IF x = NaN \/ y = NaN THEN FALSE
    ELSE IF x = Infinity THEN FALSE
    ELSE IF y = Infinity THEN TRUE
    ELSE x[1] * y[2] < y[1] * x[2]

\* x >= y, false when either is NaN
GreaterEq(x, y) ==
    IF x = NaN \/ y = NaN THEN FALSE
    ELSE ~Less(x, y)

\* Math.round(x): the nearest integer, halves up (x >= 0)
Round(x) ==
    IF ~IsFinite(x) THEN x
    ELSE Num((2 * x[1] + x[2]) \div (2 * x[2]))

RECURSIVE SumSeq(_)
\* scores.reduce((a, b) => a + b, 0)
SumSeq(s) == IF s = <<>> THEN Zero ELSE Add(SumSeq(SubSeq(s, 1, Len(s) - 1)), s[Len(s)])

(***************************************************************************)
(* JavaScript strings                                                      *)
(***************************************************************************)
\* the value of a missing property
UndefinedName == << -1 >>

\* String.prototype.toLowerCase
ToLowerCase(s) == [i \in DOMAIN s |-> IF s[i] \in 65..90 THEN s[i] + 32 ELSE s[i]]

\* an absent option is <<>>, a supplied one is <<value>>
Undefined == <<>>
Some(v) == <<v>>

\* a || b for an option a holding a positive integer or undefined
OrDefault(a, b) == IF a = Undefined \/ a[1] = 0 THEN b ELSE a[1]

\* a default parameter: the default only when the argument is undefined
ParamDefault(a, b) == IF a = Undefined THEN b ELSE a[1]

SeqToSet(s) == {s[i] : i \in DOMAIN s}

SeqsUpTo(S, n) == UNION {[1..k -> S] : k \in 0..n}

(***************************************************************************)
(* The collaborators' answers                                              *)
(***************************************************************************)
\* Spotify artists that playlists may hold: "A", "b", and a second "A"
Pool ==
    { [id |-> "id1", name |-> <<65>>],
      [id |-> "id2", name |-> <<98>>],
      [id |-> "id3", name |-> <<65>>] }

\* item.track.artists of one playlist item
TrackSet == {<<a>> : a \in Pool}

\* response.data.items of GET /v1/playlists/{id}/tracks, up to n items
PlaylistItems(n) == SeqsUpTo(TrackSet, n)

\* the playlist reference at position i of a request: "p1", "p2", ...
Url(i) == <<112, 48 + i>>

\* raw weights a caller may attach to a playlist reference (0..100)
RawWeights == {0, 25, 75}

\* entries of similarartists.artist: "X" 0.80 or 0.60, "x" 0.60, "a" 0.20; match
\* is the decimal string, in hundredths
RawEntries ==
    { [name |-> <<88>>, match |-> 80],
      [name |-> <<88>>, match |-> 60],
      [name |-> <<120>>, match |-> 60],
      [name |-> <<97>>, match |-> 20] }

\* a malformed answer: one entry, and it has no name
NamelessList == <<[name |-> UndefinedName, match |-> 60]>>

\* similarartists.artist of an artist.getsimilar response, up to n entries
SimilarLists(n) == SeqsUpTo(RawEntries, n)

\* a long answer for the seed at position i, one entry more than the default
\* limit: "wa", "wb", ... for the first seed, "xa", "xb", ... for the second
WidePage(i) ==
    [j \in 1..(DefaultLimit + 1) |-> [name |-> <<118 + i, 96 + j>>, match |-> 60]]

(***************************************************************************)
(* spotifyService                                                          *)
(***************************************************************************)
RECURSIVE Flatten(_)
\* tracks.forEach(track => track.artists.forEach(...)): every artist in order
Flatten(tracks) == IF tracks = <<>> THEN <<>> ELSE Head(tracks) \o Flatten(Tail(tracks))

RECURSIVE UniqueById(_, _)
\* artistMap: the first artist of every id, in insertion order
UniqueById(seen, as) ==
    IF as = <<>> THEN seen
    ELSE IF \E j \in DOMAIN seen : seen[j].id = Head(as).id
         THEN UniqueById(seen, Tail(as))
         ELSE UniqueById(Append(seen, Head(as)), Tail(as))

\* getPlaylistArtists: unique artists of the playlist's tracks
GetPlaylistArtists(tracks) == UniqueById(<<>>, Flatten(tracks))

(***************************************************************************)
(* recommendationEngine: weights                                           *)
(***************************************************************************)
\* playlists.map(p => typeof p === 'string' ? { url, weight: 100 / N } : p)
WithWeights(pl) ==
    [i \in DOMAIN pl |->
        [url |-> pl[i].url,
         weight |-> IF pl[i].isString
                    THEN Div(Num(FullWeight), Num(Len(pl)))
                    ELSE pl[i].weight]]

\* playlistsWithWeights.reduce((sum, p) => sum + p.weight, 0)
TotalWeight(pww) == SumSeq([i \in DOMAIN pww |-> pww[i].weight])

\* p.weight = p.weight / totalWeight, for every p
NormalizeWeights(pww) ==
    [i \in DOMAIN pww |-> [url |-> pww[i].url,
                           weight |-> Div(pww[i].weight, TotalWeight(pww))]]

\* the caller's array after the call: an object reference was returned as is
\* by the map and its weight overwritten; a string is left alone
CallerAfter(pl, pww) ==
    [i \in DOMAIN pl |->
        IF pl[i].isString THEN pl[i]
        ELSE [isString |-> FALSE, url |-> pl[i].url, weight |-> pww[i].weight]]

\* a known id takes the weight of the playlist seen last
MergeArtistOverwrite(map, a, w) ==
    IF \E j \in DOMAIN map : map[j].id = a.id
    THEN [j \in DOMAIN map |->
             IF map[j].id = a.id THEN [map[j] EXCEPT !.weight = w] ELSE map[j]]
    ELSE Append(map, [id |-> a.id, name |-> a.name, weight |-> w])

\* the body of the loop: add the playlist's weight to a known id, insert
\* { ...artist, weight } for a new one
MergeArtist(map, a, w) ==
    IF \E j \in DOMAIN map : map[j].id = a.id
    THEN [j \in DOMAIN map |->
             IF map[j].id = a.id
             THEN [map[j] EXCEPT !.weight = Add(map[j].weight, w)]
             ELSE map[j]]
    ELSE Append(map, [id |-> a.id, name |-> a.name, weight |-> w])

RECURSIVE MergeArtists(_, _, _)
\* for (const artist of artists) { ... }
MergeArtists(map, as, w) ==
    IF as = <<>> THEN map
    ELSE MergeArtists(MergeArtist(map, Head(as), w), Tail(as), w)

\* every seed given an equal share instead of its playlists' weights
WeightedArtistsEven(map) ==
    [i \in DOMAIN map |-> [name |-> map[i].name, weight |-> Div(One, Num(Len(map)))]]

\* uniqueArtists.map(a => ({ name: a.name, weight: a.weight }))
WeightedArtists(map) == [i \in DOMAIN map |-> [name |-> map[i].name, weight |-> map[i].weight]]

(***************************************************************************)
(* lastfmService                                                           *)
(***************************************************************************)
\* parseFloat of the decimal string with m hundredths
ParseFloat(m) == Rat(m, 100)

\* similarArtists.map(artist => ({ name, match: parseFloat(artist.match) }))
NormalizeEntries(list) ==
    [i \in DOMAIN list |-> [name |-> list[i].name, match |-> ParseFloat(list[i].match)]]

\* typeof a === 'string' ? { name: a, weight: 1 / length } : a
ArtistsOf(names) ==
    [i \in DOMAIN names |-> [name |-> names[i], weight |-> Div(One, Num(Len(names)))]]

\* Accumulate with the seed weight left out of the score
AccumulateUnweighted(data, similar, w) ==
    LET hit == {j \in DOMAIN data : data[j].name = similar.name}
        base == IF hit = {}
                THEN Append(data, [name |-> similar.name, frequency |-> 0,
                                   weightedScoreSum |-> Zero, scores |-> <<>>])
                ELSE data
    IN  [j \in DOMAIN base |->
            IF base[j].name = similar.name
            THEN [base[j] EXCEPT
                    !.frequency = @ + 1,
                    !.weightedScoreSum = Add(@, similar.match),
                    !.scores = Append(@, similar.match)]
            ELSE base[j]]

\* one step of the inner forEach: accumulate `similar` of a seed of weight w
Accumulate(data, similar, w) ==
    LET hit == {j \in DOMAIN data : data[j].name = similar.name}
        base == IF hit = {}
                THEN Append(data, [name |-> similar.name, frequency |-> 0,
                                   weightedScoreSum |-> Zero, scores |-> <<>>])
                ELSE data
    IN  [j \in DOMAIN base |->
            IF base[j].name = similar.name
            THEN [base[j] EXCEPT
                    !.frequency = @ + 1,
                    !.weightedScoreSum = Add(@, Mul(similar.match, w)),
                    !.scores = Append(@, similar.match)]
            ELSE base[j]]

RECURSIVE AccumulateAll(_, _, _)
\* similarArtists.forEach(similar => ...)
AccumulateAll(data, list, w) ==
    IF list = <<>> THEN data
    ELSE AccumulateAll(Accumulate(data, Head(list), w), Tail(list), w)

RECURSIVE ArtistData(_, _, _)
\* results.forEach((similarArtists, index) => ...), from index i on
ArtistData(data, res, as) ==
    IF res = <<>> THEN data
    ELSE ArtistData(AccumulateAll(data, Head(res), Head(as).weight), Tail(res), Tail(as))

\* averageMatch taken from the weighted scores
AggregatedArtistsWeightedMean(data) ==
    [j \in DOMAIN data |->
        [name |-> data[j].name,
         frequency |-> data[j].frequency,
         averageMatch |-> Div(data[j].weightedScoreSum, Num(Len(data[j].scores))),
         combinedScore |-> data[j].weightedScoreSum]]

\* Array.from(artistData.keys()).map(name => ({ name, frequency, averageMatch, combinedScore }))
AggregatedArtists(data) ==
    [j \in DOMAIN data |->
        [name |-> data[j].name,
         frequency |-> data[j].frequency,
         averageMatch |-> Div(SumSeq(data[j].scores), Num(Len(data[j].scores))),
         combinedScore |-> data[j].weightedScoreSum]]

\* (a, b) => b.combinedScore - a.combinedScore is positive: b goes first
ComesAfter(a, b) == Less(a.combinedScore, b.combinedScore)

RECURSIVE InsertSorted(_, _)
\* x placed into the sorted s behind everything it does not beat
InsertSorted(s, x) ==
    IF s = <<>> \/ ComesAfter(Head(s), x) THEN <<x>> \o s
    ELSE <<Head(s)>> \o InsertSorted(Tail(s), x)

RECURSIVE SortByScore(_)
\* aggregatedArtists.sort(...): Array.prototype.sort is stable
SortByScore(s) ==
    IF s = <<>> THEN <<>>
    ELSE InsertSorted(SortByScore(SubSeq(s, 1, Len(s) - 1)), s[Len(s)])

\* what getSimilarArtistsForMultiple resolves to once every lookup settled
SimilarForMultiple(res, as) == SortByScore(AggregatedArtists(ArtistData(<<>>, res, as)))

(***************************************************************************)
(* recommendationEngine: filter and result                                 *)
(***************************************************************************)
RECURSIVE FilterSeq(_, _, _)
\* similarArtists.filter(artist => !seedNamesLower.includes(lower) && frequency >= min)
FilterSeq(s, seedNamesLower, minFrequency) ==
    IF s = <<>> THEN <<>>
    ELSE LET a == Head(s)
             keep == /\ ToLowerCase(a.name) \notin seedNamesLower
                     /\ a.frequency >= minFrequency
             rest == FilterSeq(Tail(s), seedNamesLower, minFrequency)
         IN  IF keep THEN <<a>> \o rest ELSE rest

\* a slice that keeps one entry too many
SliceOneMore(s, limit) == SubSeq(s, 1, IF limit + 1 < Len(s) THEN limit + 1 ELSE Len(s))

\* filtered.slice(0, limit), limit >= 0
Slice(s, limit) == SubSeq(s, 1, IF limit < Len(s) THEN limit ELSE Len(s))

\* artist.name.toLowerCase() throws a TypeError when name is undefined
FilterThrows(s) == \E j \in DOMAIN s : s[j].name = UndefinedName

\* single: the destructuring defaults; multi: options.x || default
LimitOf(o, opts) ==
    IF o = "single" THEN ParamDefault(opts.limit, DefaultLimit)
    ELSE OrDefault(opts.limit, DefaultLimit)

\* the supplied minFrequency never read
MinFrequencyIgnored(o, opts) == DefaultMinFrequency

MinFrequencyOf(o, opts) ==
    IF o = "single" THEN ParamDefault(opts.minFrequency, DefaultMinFrequency)
    ELSE OrDefault(opts.minFrequency, DefaultMinFrequency)

\* the seed names compared as they are spelled
SeedNamesExact(map) == {map[i].name : i \in DOMAIN map}

SeedNamesLower(map) == {ToLowerCase(map[i].name) : i \in DOMAIN map}

Filtered(o, opts, map, similar) ==
    FilterSeq(similar, SeedNamesLower(map), MinFrequencyOf(o, opts))

\* the object the engine returns
ResultObject(o, opts, map, pww, similar) ==
    LET filtered == Filtered(o, opts, map, similar)
    IN  [status |-> "ok",
         seedArtists |-> [i \in DOMAIN map |-> [id |-> map[i].id, name |-> map[i].name]],
         playlistWeights |->
             IF o = "single" THEN <<>>
             ELSE [i \in DOMAIN pww |->
                      [url |-> pww[i].url, weight |-> Round(Mul(pww[i].weight, Num(100)))]],
         recommendations |-> Slice(filtered, LimitOf(o, opts)),
         totalFound |-> Len(filtered)]

VARIABLES
    pc,                   \* where the request in flight stands
    op,                   \* "single" (getRecommendations) or "multi"
    playlists,            \* the caller's playlist array (its objects are shared)
    rawPlaylists,         \* the array as it was passed (history)
    options,              \* { limit, minFrequency }
    playlistsWithWeights, \* engine: playlistsWithWeights
    idx,                  \* engine: position of the playlist being resolved
    resolved,             \* what getPlaylistArtists returned, per playlist (history)
    artistWeightMap,      \* engine: artistWeightMap / seedArtists, insertion order
    artists,              \* lastfm: artists (name, weight)
    pending,              \* lastfm: lookups whose promise is not settled
    results,              \* lastfm: settled promises' values
    outcome,              \* per lookup: "ok" or "degraded" (history)
    settled,              \* the lookups in the order their promises settled (history)
    similarArtists,       \* lastfm: the sorted aggregate returned
    response,             \* what the caller gets: a result object or an error
    spent                 \* how much of MaxInput the request has read

\* spotifyService, one instance for the process
VARIABLES
    accessToken,          \* this.accessToken: Null or <<token>>
    tokenExpiry,          \* this.tokenExpiry: Null or <<milliseconds>>
    now,                  \* Date.now()
    call,                 \* per caller of getAccessToken: where the call stands
    issued                \* tokens the accounts service has handed out

tokenVars == <<accessToken, tokenExpiry, now, call, issued>>

engineVars == <<pc, op, playlists, rawPlaylists, options, playlistsWithWeights, idx, resolved,
          artistWeightMap, artists, pending, results, outcome, settled,
          similarArtists, response, spent>>

vars == <<engineVars, tokenVars>>

\* the value null
Null == <<>>

Callers == 1..MaxCallers

\* no getAccessToken call in progress for this caller
NoCall == [pc |-> "idle"]

\* constructor(): accessToken = null, tokenExpiry = null
TokenInit ==
    /\ accessToken = Null
    /\ tokenExpiry = Null
    /\ now = MsPerSecond
    /\ call = [c \in Callers |-> NoCall]
    /\ issued = 0

NoResponse == [status |-> "none"]

Init ==
    /\ pc = "idle"
    /\ op = "none"
    /\ playlists = <<>>
    /\ rawPlaylists = <<>>
    /\ options = [limit |-> Undefined, minFrequency |-> Undefined]
    /\ playlistsWithWeights = <<>>
    /\ idx = 0
    /\ resolved = <<>>
    /\ artistWeightMap = <<>>
    /\ artists = <<>>
    /\ pending = {}
    /\ results = <<>>
    /\ outcome = <<>>
    /\ settled = <<>>
    /\ similarArtists = <<>>
    /\ response = NoResponse
    /\ spent = 0
    /\ TokenInit

(***************************************************************************)
(* What a caller may pass                                                  *)
(***************************************************************************)
LimitChoices == {Undefined} \cup {Some(k) : k \in 1..MaxLimit}
MinFrequencyChoices == {Undefined} \cup {Some(k) : k \in 1..MaxMinFrequency}
OptionChoices == [limit : LimitChoices, minFrequency : MinFrequencyChoices]

\* a bare URL
StringRef(i) == [isString |-> TRUE, url |-> Url(i), weight |-> Undefined]

\* { url, weight }
ObjectRef(i, w) == [isString |-> FALSE, url |-> Url(i), weight |-> Num(w)]

\* arrays of up to n playlist references; position i holds Url(i), bare
\* (kind -1) or with a weight (kind = the weight)
PlaylistArrays(n) ==
    UNION {{[i \in 1..k |-> IF kind[i] = -1 THEN StringRef(i) ELSE ObjectRef(i, kind[i])] :
               kind \in [1..k -> {-1} \cup RawWeights]} : k \in 0..n}

\* the part of MaxInput a call takes: its playlist references and its options
CallSize(pl, opts) ==
    Len(pl)
    + (IF opts.limit = Undefined THEN 0 ELSE 1)
    + (IF opts.minFrequency = Undefined THEN 0 ELSE 1)

\* the request reads n more items, within MaxInput
Spend(n) ==
    /\ spent + n <= MaxInput
    /\ spent' = spent + n

(***************************************************************************)
(* The request                                                             *)
(***************************************************************************)
\* getSimilarArtistsForMultiple up to its await: one lookup started per artist
StartLookups(as) ==
    /\ artists' = as
    /\ pending' = DOMAIN as
    /\ results' = [i \in DOMAIN as |-> <<>>]
    /\ outcome' = [i \in DOMAIN as |-> "pending"]
    /\ settled' = <<>>
    /\ pc' = "fanout"

\* getRecommendations(playlistUrl, options), up to the playlist fetch
CallSingle(opts) ==
    /\ pc = "idle"
    /\ Spend(CallSize(<<Url(1)>>, opts))
    /\ op' = "single"
    /\ options' = opts
    /\ playlists' = <<StringRef(1)>>
    /\ rawPlaylists' = playlists'
    /\ idx' = 1
    /\ pc' = "resolving"
    /\ UNCHANGED <<playlistsWithWeights, resolved, artistWeightMap, artists, pending,
                   results, outcome, settled, similarArtists, response>>

\* getRecommendationsFromMultiple(playlists, options), up to the first await
CallMulti(pl, opts) ==
    /\ pc = "idle"
    /\ Spend(CallSize(pl, opts))
    /\ op' = "multi"
    /\ options' = opts
    /\ rawPlaylists' = pl
    /\ playlistsWithWeights' = NormalizeWeights(WithWeights(pl))
    /\ playlists' = CallerAfter(pl, playlistsWithWeights')
    /\ idx' = 1
    /\ IF pl = <<>>
       THEN StartLookups(<<>>)
       ELSE /\ pc' = "resolving"
            /\ UNCHANGED <<artists, pending, results, outcome, settled>>
    /\ UNCHANGED <<resolved, artistWeightMap, similarArtists, response>>

\* POST /recommendations/multiple: an absent or empty array is answered with
\* status 400, anything else is passed to getRecommendationsFromMultiple
RouteMultiple(pl, opts) ==
    IF pl = <<>>
    THEN /\ pc = "idle"
         /\ op' = "route"
         /\ pc' = "failed"
         /\ response' = [status |-> "error",
                         message |-> "Either playlistUrls array or playlists array with weights is required"]
         /\ UNCHANGED <<spent, playlists, rawPlaylists, options, playlistsWithWeights, idx,
                        resolved, artistWeightMap, artists, pending, results, outcome, settled,
                        similarArtists>>
    ELSE CallMulti(pl, opts)

\* spotifyService.getPlaylistArtists resolves for the playlist at idx
ResolveOk(tracks) ==
    /\ pc = "resolving"
    /\ Spend(Len(tracks))
    /\ resolved' = Append(resolved, GetPlaylistArtists(tracks))
    /\ LET as == GetPlaylistArtists(tracks)
       IN  IF op = "single"
           THEN /\ artistWeightMap' =
                       [i \in DOMAIN as |-> [id |-> as[i].id, name |-> as[i].name,
                                             weight |-> Undefined]]
                /\ StartLookups(ArtistsOf([i \in DOMAIN as |-> as[i].name]))
                /\ UNCHANGED idx
           ELSE /\ artistWeightMap' =
                       MergeArtists(artistWeightMap, as, playlistsWithWeights[idx].weight)
                /\ IF idx = Len(playlistsWithWeights)
                   THEN /\ StartLookups(WeightedArtists(artistWeightMap'))
                        /\ UNCHANGED idx
                   ELSE /\ idx' = idx + 1
                        /\ UNCHANGED <<pc, artists, pending, results, outcome, settled>>
    /\ UNCHANGED <<op, playlists, rawPlaylists, options, playlistsWithWeights,
                   similarArtists, response>>

\* a playlist that cannot be fetched is left out and the rest is answered
ResolveFailPartial ==
    /\ pc = "resolving"
    /\ pc' = "done"
    /\ response' = ResultObject(op, options, artistWeightMap, playlistsWithWeights, <<>>)
    /\ UNCHANGED <<spent, op, playlists, rawPlaylists, options, playlistsWithWeights, idx,
                   resolved, artistWeightMap, artists, pending, results, outcome, settled, similarArtists>>

\* getPlaylistTracks throws: the request is rejected with that error
ResolveFail ==
    /\ pc = "resolving"
    /\ pc' = "failed"
    /\ response' = [status |-> "error", message |-> "Failed to fetch playlist from Spotify"]
    /\ UNCHANGED <<spent, op, playlists, rawPlaylists, options, playlistsWithWeights, idx,
                   resolved, artistWeightMap, artists, pending, results, outcome, settled, similarArtists>>

Settle(i, value, how, cost) ==
    /\ pc = "fanout"
    /\ i \in pending
    /\ Spend(cost)
    /\ pending' = pending \ {i}
    /\ results' = [results EXCEPT ![i] = value]
    /\ outcome' = [outcome EXCEPT ![i] = how]
    /\ settled' = Append(settled, i)
    /\ UNCHANGED <<pc, op, playlists, rawPlaylists, options, playlistsWithWeights, idx,
                   resolved, artistWeightMap, artists, similarArtists, response>>

\* getSimilarArtists: the response carries a list of similar artists
LookupOk(i, list) == Settle(i, NormalizeEntries(list), "ok", Len(list))

\* getSimilarArtists: a long list, more entries than the default limit
LookupFullPage(i) == Settle(i, NormalizeEntries(WidePage(i)), "ok", 2)

\* getSimilarArtists: the response's only entry has no name; nothing throws
\* here, the entry is passed on with name undefined
LookupNameless(i) == Settle(i, NormalizeEntries(NamelessList), "malformed", 1)

\* axios.get rejects (network error, HTTP error status): caught, []
LookupNetworkError(i) == Settle(i, <<>>, "degraded", 0)

\* unknown artist: the body has no similarartists, `?.artist || []` gives []
LookupUnknownArtist(i) == Settle(i, <<>>, "degraded", 0)

\* malformed body: similarartists.artist is no array, .map throws: caught, []
LookupNotAnArray(i) == Settle(i, <<>>, "degraded", 0)

\* the values handed on in the order in which the promises settled
PromiseAllBySettlement(res, order) == [k \in DOMAIN order |-> res[order[k]]]

\* await Promise.all(promises): the values in the order of the promises,
\* whatever the order in which they settled
PromiseAll(res, order) == res

\* Promise.all settles; aggregate, sort, and resolve to the engine
Aggregate ==
    /\ pc = "fanout"
    /\ pending = {}
    /\ similarArtists' = SimilarForMultiple(PromiseAll(results, settled), artists)
    /\ pc' = "aggregated"
    /\ UNCHANGED <<spent, op, playlists, rawPlaylists, options, playlistsWithWeights, idx,
                   resolved, artistWeightMap, artists, pending, results, outcome, settled, response>>

\* the engine's continuation: filter, slice, return (or throw out of the filter)
Respond ==
    /\ pc = "aggregated"
    /\ IF FilterThrows(similarArtists)
       THEN /\ pc' = "failed"
            /\ response' = [status |-> "error",
                            message |-> "Cannot read properties of undefined"]
       ELSE /\ pc' = "done"
            /\ response' = ResultObject(op, options, artistWeightMap,
                                        playlistsWithWeights, similarArtists)
    /\ UNCHANGED <<spent, op, playlists, rawPlaylists, options, playlistsWithWeights, idx,
                   resolved, artistWeightMap, artists, pending, results, outcome, settled, similarArtists>>

\* the request is over; the next one starts from scratch
Finish ==
    /\ pc \in {"done", "failed"}
    /\ pc' = "idle"
    /\ op' = "none"
    /\ playlists' = <<>>
    /\ rawPlaylists' = <<>>
    /\ options' = [limit |-> Undefined, minFrequency |-> Undefined]
    /\ playlistsWithWeights' = <<>>
    /\ idx' = 0
    /\ resolved' = <<>>
    /\ artistWeightMap' = <<>>
    /\ artists' = <<>>
    /\ pending' = {}
    /\ results' = <<>>
    /\ outcome' = <<>>
    /\ settled' = <<>>
    /\ similarArtists' = <<>>
    /\ response' = NoResponse
    /\ spent' = 0

Next ==
    \/ /\ pc = "idle"
       /\ \E opts \in OptionChoices : CallSingle(opts)
       /\ UNCHANGED tokenVars
    \/ /\ pc = "idle"
       /\ \E pl \in PlaylistArrays(MaxInput), opts \in OptionChoices : CallMulti(pl, opts)
       /\ UNCHANGED tokenVars
    \/ /\ pc = "idle"
       /\ \E pl \in PlaylistArrays(MaxInput), opts \in OptionChoices : RouteMultiple(pl, opts)
       /\ UNCHANGED tokenVars
    \/ /\ pc = "resolving"
       /\ \E tracks \in PlaylistItems(MaxInput - spent) : ResolveOk(tracks)
       /\ UNCHANGED tokenVars
    \/ /\ ResolveFail
       /\ UNCHANGED tokenVars
    \/ /\ pc = "fanout"
       /\ \E i \in pending, list \in SimilarLists(MaxInput - spent) : LookupOk(i, list)
       /\ UNCHANGED tokenVars
    \/ /\ \E i \in pending : LookupFullPage(i)
       /\ UNCHANGED tokenVars
    \/ /\ \E i \in pending : LookupNameless(i)
       /\ UNCHANGED tokenVars
    \/ /\ \E i \in pending : LookupNetworkError(i)
       /\ UNCHANGED tokenVars
    \/ /\ \E i \in pending : LookupUnknownArtist(i)
       /\ UNCHANGED tokenVars
    \/ /\ \E i \in pending : LookupNotAnArray(i)
       /\ UNCHANGED tokenVars
    \/ /\ Aggregate
       /\ UNCHANGED tokenVars
    \/ /\ Respond
       /\ UNCHANGED tokenVars
    \/ /\ Finish
       /\ UNCHANGED tokenVars

Spec == Init /\ [][Next]_vars

(***************************************************************************)
(* spotifyService.getAccessToken, called by concurrent requests            *)
(***************************************************************************)
\* a cached token counts whatever its expiry
CacheValidIgnoringExpiry == accessToken # Null

\* this.accessToken && this.tokenExpiry && Date.now() < this.tokenExpiry
CacheValid ==
    /\ accessToken # Null
    /\ tokenExpiry # Null
    /\ now < tokenExpiry[1]

\* expires_in of a token response, in seconds
ExpiresInChoices == {RefreshLead, RefreshLead + 2}

\* getAccessToken() up to its return or its await: the cached token is
\* returned at once, or a token request is posted
GetAccessToken(c) ==
    /\ call[c].pc = "idle"
    /\ call' = [call EXCEPT ![c] =
                   [pc |-> IF CacheValid THEN "returned" ELSE "awaiting",
                    at |-> now,
                    seenToken |-> accessToken,
                    seenExpiry |-> tokenExpiry,
                    requested |-> ~CacheValid,
                    value |-> IF CacheValid THEN accessToken ELSE Null]]
    /\ UNCHANGED <<accessToken, tokenExpiry, now, issued, engineVars>>

\* the token request is answered: the token and its expiry are stored
TokenResponse(c, expiresIn) ==
    /\ call[c].pc = "awaiting"
    /\ issued < MaxIssued
    /\ issued' = issued + 1
    /\ accessToken' = Some(issued')
    /\ tokenExpiry' = Some(now + (expiresIn - RefreshLead) * MsPerSecond)
    /\ call' = [call EXCEPT ![c].pc = "returned", ![c].value = accessToken']
    /\ UNCHANGED <<now, engineVars>>

\* the token request fails: 'Failed to authenticate with Spotify' is thrown
TokenFailure(c) ==
    /\ call[c].pc = "awaiting"
    /\ call' = [call EXCEPT ![c].pc = "failed"]
    /\ UNCHANGED <<accessToken, tokenExpiry, now, issued, engineVars>>

\* the caller has its token or its error; it may call again
CallOver(c) ==
    /\ call[c].pc \in {"returned", "failed"}
    /\ call' = [call EXCEPT ![c] = NoCall]
    /\ UNCHANGED <<accessToken, tokenExpiry, now, issued, engineVars>>

\* a second passes
Tick ==
    /\ now < MaxTicks * MsPerSecond
    /\ now' = now + MsPerSecond
    /\ UNCHANGED <<accessToken, tokenExpiry, call, issued, engineVars>>

TokenNext ==
    \/ \E c \in Callers : GetAccessToken(c)
    \/ \E c \in Callers, expiresIn \in ExpiresInChoices : TokenResponse(c, expiresIn)
    \/ \E c \in Callers : TokenFailure(c)
    \/ \E c \in Callers : CallOver(c)
    \/ Tick

TokenSpec == Init /\ [][TokenNext]_vars

(***************************************************************************)
(* Properties                                                              *)
(***************************************************************************)
\* getSimilarArtistsForMultiple has returned
HasAggregated == pc \in {"aggregated", "done"}

\* the engine has returned a result object
HasResult == pc = "done" /\ response.status = "ok"

\* the (seed, position) pairs of the fan-out results
ObservedPairs == UNION {{<<i, j>> : j \in DOMAIN results[i]} : i \in DOMAIN results}

\* the observed pairs whose similar artist carries this name
PairsNamed(name) == {p \in ObservedPairs : results[p[1]][p[2]].name = name}

RECURSIVE WeightedPairSum(_)
\* the sum of matchScore x seedWeight over a set of observed pairs
WeightedPairSum(P) ==
    IF P = {} THEN Zero
    ELSE LET p == CHOOSE q \in P : TRUE
         IN  Add(Mul(results[p[1]][p[2]].match, artists[p[1]].weight),
                 WeightedPairSum(P \ {p}))

\* s and t are the same string up to the case of their letters
EqualIgnoringCase(s, t) ==
    /\ Len(s) = Len(t)
    /\ \A i \in DOMAIN s :
          \/ s[i] = t[i]
          \/ s[i] \in 65..90 /\ t[i] = s[i] + 32
          \/ t[i] \in 65..90 /\ s[i] = t[i] + 32

IsSeedName(name) ==
    \E i \in DOMAIN artistWeightMap : EqualIgnoringCase(name, artistWeightMap[i].name)

RequestedMinFrequency ==
    IF options.minFrequency = Undefined THEN DefaultMinFrequency ELSE options.minFrequency[1]

RequestedLimit ==
    IF options.limit = Undefined THEN DefaultLimit ELSE options.limit[1]

\* positions of the ranked aggregate that are no seed and frequent enough
PassingPositions ==
    {j \in DOMAIN similarArtists :
        /\ ~IsSeedName(similarArtists[j].name)
        /\ similarArtists[j].frequency >= RequestedMinFrequency}

\* the n-th passing candidate in ranked order
NthPassing(n) ==
    similarArtists[CHOOSE j \in PassingPositions :
                      Cardinality({h \in PassingPositions : h < j}) = n - 1]

Min(a, b) == IF a < b THEN a ELSE b

\* C2: no returned recommendation has a name equal, ignoring case, to the name
\* of a seed artist of the request
NoSeedRecommended ==
    HasResult =>
        \A j \in DOMAIN response.recommendations :
            ~IsSeedName(response.recommendations[j].name)

\* a candidate spelled in another case than a seed was aggregated, and the
\* request still returned something
NoSeedRecommendedWitness ==
    /\ HasResult
    /\ response.recommendations # <<>>
    /\ \E k \in DOMAIN similarArtists :
          /\ IsSeedName(similarArtists[k].name)
          /\ \A i \in DOMAIN artistWeightMap :
                similarArtists[k].name # artistWeightMap[i].name

\* C3: with minFrequency = k every returned recommendation has frequency >= k,
\* and totalFound counts the aggregated candidates that are no seed and have
\* frequency >= k, before the limit cuts the list
MinFrequencyRespected ==
    HasResult =>
        /\ \A j \in DOMAIN response.recommendations :
              response.recommendations[j].frequency >= RequestedMinFrequency
        /\ response.totalFound = Cardinality(PassingPositions)
        /\ response.totalFound >= Len(response.recommendations)

\* minFrequency = 2 let through a candidate that was seen twice
MinFrequencyWitness ==
    /\ HasResult
    /\ options.minFrequency = Some(2)
    /\ response.totalFound >= 1
    /\ response.recommendations # <<>>
    /\ response.recommendations[1].frequency = 2

\* C5: the recommendations are the first min(limit, totalFound) entries of the
\* filtered ranked list, limit being 20 when none is supplied, in the single-
\* and in the multi-playlist operation alike
TruncatedToLimit ==
    HasResult =>
        /\ Len(response.recommendations) = Min(RequestedLimit, response.totalFound)
        /\ \A n \in DOMAIN response.recommendations :
              response.recommendations[n] = NthPassing(n)

\* no limit supplied and more than 20 candidates found: 20 are returned
TruncatedToLimitWitness ==
    /\ HasResult
    /\ op = "multi"
    /\ options.limit = Undefined
    /\ response.totalFound > DefaultLimit
    /\ Len(response.recommendations) = DefaultLimit

\* C4: adjacent returned recommendations r[i], r[i+1] satisfy
\* r[i].combinedScore >= r[i+1].combinedScore
RankedByCombinedScore ==
    HasResult =>
        \A j \in 1..(Len(response.recommendations) - 1) :
            GreaterEq(response.recommendations[j].combinedScore,
                      response.recommendations[j + 1].combinedScore)

\* C6: for a non-empty array of playlist references the normalized playlist
\* weights add up to 1, and N bare references get 1/N each
NormalizedWeightsSumToOne ==
    (op = "multi" /\ rawPlaylists # <<>>) =>
        /\ SumSeq([i \in DOMAIN playlistsWithWeights |-> playlistsWithWeights[i].weight]) = One
        /\ (\A i \in DOMAIN rawPlaylists : rawPlaylists[i].isString) =>
              \A i \in DOMAIN playlistsWithWeights :
                  playlistsWithWeights[i].weight = Div(One, Num(Len(rawPlaylists)))

\* the playlists resolved so far that contain the artist id
PlaylistsWith(id) ==
    {p \in DOMAIN resolved : \E k \in DOMAIN resolved[p] : resolved[p][k].id = id}

RECURSIVE PlaylistWeightSum(_)
\* the sum of the normalized weights of the playlists P
PlaylistWeightSum(P) ==
    IF P = {} THEN Zero
    ELSE LET p == CHOOSE q \in P : \A r \in P : q <= r
         IN  Add(playlistsWithWeights[p].weight, PlaylistWeightSum(P \ {p}))

\* C7: in the multi-playlist operation every artist id resolved so far is in
\* the seed set once, and its weight is the sum of the normalized weights of
\* the playlists that contain it
MergedWeightIsSum ==
    op = "multi" =>
        /\ \A i, j \in DOMAIN artistWeightMap :
              artistWeightMap[i].id = artistWeightMap[j].id => i = j
        /\ {artistWeightMap[i].id : i \in DOMAIN artistWeightMap} =
              UNION {{resolved[p][k].id : k \in DOMAIN resolved[p]} : p \in DOMAIN resolved}
        /\ \A i \in DOMAIN artistWeightMap :
              /\ PlaylistsWith(artistWeightMap[i].id) # {}
              /\ artistWeightMap[i].weight =
                    PlaylistWeightSum(PlaylistsWith(artistWeightMap[i].id))

\* an artist found in two playlists of different weight carries both weights
MergedWeightWitness ==
    /\ op = "multi"
    /\ pc = "fanout"
    /\ \E i \in DOMAIN artistWeightMap :
          /\ PlaylistsWith(artistWeightMap[i].id) = {1, 2}
          /\ Less(Zero, playlistsWithWeights[1].weight)
          /\ Less(playlistsWithWeights[1].weight, playlistsWithWeights[2].weight)
          /\ artistWeightMap[i].weight = One

\* the lookups of the request have been started
HasSeeds == pc \in {"fanout", "aggregated", "done"}

SeedWeights == [i \in DOMAIN artists |-> artists[i].weight]

RECURSIVE InheritedWeights(_)
\* one normalized playlist weight per artist of the playlist, playlists 1..p
InheritedWeights(p) ==
    IF p = 0 THEN <<>>
    ELSE InheritedWeights(p - 1) \o
         [k \in DOMAIN resolved[p] |-> playlistsWithWeights[p].weight]

NoCaseDuplicates ==
    HasAggregated =>
        \A j, k \in DOMAIN similarArtists :
            EqualIgnoringCase(similarArtists[j].name, similarArtists[k].name) => j = k

\* C10: a lookup that fails (network error, unknown artist, malformed
\* response) gives the empty list for its seed, a request whose lookups were
\* started does not fail, and every entry of a lookup that succeeded is in the
\* aggregate
LookupFailuresAbsorbed ==
    /\ \A i \in DOMAIN outcome :
          outcome[i] \in {"degraded", "malformed"} => results[i] = <<>>
    /\ pc = "failed" => outcome = <<>>
    /\ HasAggregated =>
          \A i \in DOMAIN outcome : \A e \in DOMAIN results[i] :
              outcome[i] = "ok" =>
                  \E k \in DOMAIN similarArtists :
                      similarArtists[k].name = results[i][e].name

\* a playlist of the request could not be resolved and the request is over
ResolutionFailed == pc = "failed" /\ Len(resolved) < Len(playlists)

\* C11: when resolving one of the playlists fails the request is rejected with
\* that error, no similarity lookup has been issued, and a result object is
\* only ever returned when every playlist of the request resolved
ResolutionFailureIsFatal ==
    /\ ResolutionFailed =>
          /\ response.status = "error"
          /\ response.message = "Failed to fetch playlist from Spotify"
          /\ artists = <<>>
          /\ outcome = <<>>
          /\ similarArtists = <<>>
    /\ HasResult => Len(resolved) = Len(playlists)

\* the second playlist failed after the first one had given a seed artist
ResolutionFailureWitness ==
    /\ ResolutionFailed
    /\ op = "multi"
    /\ Len(resolved) = 1
    /\ resolved[1] # <<>>
    /\ artistWeightMap # <<>>

\* C12: a request with an empty playlist array, through the route or straight
\* into getRecommendationsFromMultiple, resolves nothing, looks nothing up and
\* never ends in a result object
EmptyInputRejected ==
    (op \in {"multi", "route"} /\ rawPlaylists = <<>>) =>
        /\ ~HasResult
        /\ pc \in {"done", "failed"} => response.status = "error"
        /\ resolved = <<>>
        /\ pending = {}

\* C13: while the lookups are out, all of them were started together and
\* nothing has been accumulated; once the aggregate exists every lookup has
\* settled exactly once, and the aggregate is the one computed from the values
\* taken in seed order, whatever the order in which the lookups settled
JoinBarrier ==
    /\ pc = "fanout" =>
          /\ DOMAIN outcome = DOMAIN artists
          /\ pending \cup SeqToSet(settled) = DOMAIN artists
          /\ pending \cap SeqToSet(settled) = {}
          /\ similarArtists = <<>>
    /\ HasAggregated =>
          /\ pending = {}
          /\ Len(settled) = Len(artists)
          /\ SeqToSet(settled) = DOMAIN artists
          /\ similarArtists = SimilarForMultiple(results, artists)

\* the second lookup settled before the first, both with candidates
JoinBarrierWitness ==
    /\ pc = "aggregated"
    /\ settled = <<2, 1>>
    /\ results[1] # <<>>
    /\ results[2] # <<>>
    /\ similarArtists # <<>>

\* C14: the number of lookups issued equals the number of distinct names in
\* the seed set
LookupPerDistinctName ==
    HasSeeds =>
        Len(outcome) = Cardinality({artistWeightMap[i].name : i \in DOMAIN artistWeightMap})

\* the seeds whose lookup returned the name
SeedsReturning(name) ==
    {i \in DOMAIN results : \E e \in DOMAIN results[i] : results[i][e].name = name}

\* C15: the frequency of every aggregated candidate is at least 1, equals the
\* number of distinct seed artists whose lookup returned the candidate, and
\* does not exceed the number of seed artists
FrequencyCountsSeeds ==
    HasAggregated =>
        \A k \in DOMAIN similarArtists :
            /\ similarArtists[k].frequency >= 1
            /\ similarArtists[k].frequency =
                  Cardinality(SeedsReturning(similarArtists[k].name))
            /\ similarArtists[k].frequency <= Len(artists)

RECURSIVE RawPairSum(_)
\* the sum of the raw matchScore over a set of observed pairs
RawPairSum(P) ==
    IF P = {} THEN Zero
    ELSE LET p == CHOOSE q \in P : TRUE
         IN  Add(results[p[1]][p[2]].match, RawPairSum(P \ {p}))

\* C16: for every aggregated candidate averageMatch x frequency is the sum of
\* the raw match scores observed for its name, and averageMatch is that sum
\* divided by the number of scores, whatever the seed weights
AverageMatchIsMean ==
    HasAggregated =>
        \A k \in DOMAIN similarArtists :
            LET P == PairsNamed(similarArtists[k].name)
            IN  /\ Mul(similarArtists[k].averageMatch, Num(similarArtists[k].frequency)) =
                      RawPairSum(P)
                /\ similarArtists[k].averageMatch = Div(RawPairSum(P), Num(Cardinality(P)))

\* X seen with 0.8 and with 0.6 under seed weights below 1: averageMatch 0.70
AverageMatchWitness ==
    /\ pc = "aggregated"
    /\ \E k \in DOMAIN similarArtists :
          /\ similarArtists[k].frequency = 2
          /\ similarArtists[k].averageMatch = Rat(70, 100)
          /\ similarArtists[k].combinedScore # RawPairSum(PairsNamed(similarArtists[k].name))

\* playlistWeights of a call made with the caller's array as it is now
PlaylistWeightsOfNextCall ==
    LET again == NormalizeWeights(WithWeights(playlists))
    IN  [i \in DOMAIN again |->
            [url |-> again[i].url, weight |-> Round(Mul(again[i].weight, Num(100)))]]

\* C18: the caller's playlist references hold the same weights after the call
\* as before, and a second call with the same array reports the same
\* playlistWeights as the first
CallerPlaylistsUnchanged ==
    op = "multi" =>
        /\ playlists = rawPlaylists
        /\ HasResult => PlaylistWeightsOfNextCall = response.playlistWeights

\* the cache as the call of caller c found it held a token that had not expired
FoundValid(c) ==
    /\ call[c].seenToken # Null
    /\ call[c].seenExpiry # Null
    /\ call[c].at < call[c].seenExpiry[1]

\* C17: a getAccessToken call that finds a cached token before its expiry
\* returns that token without a token request, any other call issues a token
\* request; and a token request that fails fails its own caller only and
\* leaves accessToken and tokenExpiry as they were
TokenCacheContract ==
    /\ [](\A c \in Callers :
            call[c].pc # "idle" =>
                /\ FoundValid(c) =>
                      /\ ~call[c].requested
                      /\ call[c].pc = "returned"
                      /\ call[c].value = call[c].seenToken
                /\ ~FoundValid(c) => call[c].requested)
    /\ [][\A c \in Callers :
            (call[c].pc = "awaiting" /\ call'[c].pc = "failed") =>
                /\ accessToken' = accessToken
                /\ tokenExpiry' = tokenExpiry
                /\ \A d \in Callers \ {c} : call'[d] = call[d]]_vars

\* one caller is served from the cache while the token request that another
\* caller made after an expiry has failed
TokenCacheWitness ==
    /\ accessToken # Null
    /\ \E c, d \in Callers :
          /\ call[c].pc = "returned"
          /\ ~call[c].requested
          /\ call[d].pc = "failed"
          /\ call[d].seenToken # Null
          /\ call[d].at >= call[d].seenExpiry[1]
====
